---------------------------- MODULE Spec2Model ----------------------------
(***************************************************************************)
(* Token-level parsers of the Fortran front end                            *)
(* (src/lib/parser/token-parsers.h).                                       *)
(*                                                                         *)
(* A parse session is a ParseState: the character stream `input`, the      *)
(* cursor `pos` (number of characters already consumed), the message sink  *)
(* `messages`, and the two session flags.  The grammar driver may pull     *)
(* characters (GetNextChar) and may call one token parser; the call is     *)
(* recorded in `call`, `start`, `result` and `locals`.                     *)
(*                                                                         *)
(* Characters are their ASCII codes.  A std::string is a sequence of       *)
(* codes.  A std::uint64_t is a little-endian sequence of 16-bit limbs     *)
(* with no high zero limb (TLC integers have 32 bits), so that arithmetic  *)
(* modulo 2^64 is exact.  A std::optional<T> is <<>> or <<v>>.             *)
(***************************************************************************)
EXTENDS Integers, Sequences, FiniteSets, TLC

VARIABLES input, pos, messages, strictConformance, backslashEscapes,
          call, start, result, locals

vars == <<input, pos, messages, strictConformance, backslashEscapes,
          call, start, result, locals>>

(***************************************************************************)
(* Characters                                                              *)
(***************************************************************************)
NUL == 0
TAB == 9
NL == 10
SP == 32
DQUOTE == 34
SQUOTE == 39
BACKSLASH == 92

Chr(s) ==
  CASE s = "~" -> 126 [] s = "," -> 44 [] s = ":" -> 58 [] s = "3" -> 51 [] s = "4" -> 52
    [] s = "0" -> 48 [] s = "1" -> 49 [] s = "2" -> 50 [] s = "7" -> 55
    [] s = "8" -> 56 [] s = "9" -> 57
    [] s = "A" -> 65 [] s = "B" -> 66 [] s = "F" -> 70 [] s = "H" -> 72
    [] s = "O" -> 79 [] s = "X" -> 88 [] s = "Z" -> 90
    [] s = "a" -> 97 [] s = "b" -> 98 [] s = "c" -> 99 [] s = "f" -> 102
    [] s = "h" -> 104 [] s = "n" -> 110 [] s = "o" -> 111 [] s = "r" -> 114
    [] s = "t" -> 116 [] s = "v" -> 118 [] s = "x" -> 120 [] s = "z" -> 122

IsUpper(ch) == ch \in 65..90
IsLower(ch) == ch \in 97..122

tolower(ch) == IF IsUpper(ch) THEN ch + 32 ELSE ch
toupper(ch) == IF IsLower(ch) THEN ch - 32 ELSE ch
isdigit(ch) == ch \in 48..57
isxdigit(ch) == isdigit(ch) \/ ch \in 65..70 \/ ch \in 97..102
isalpha(ch) == IsUpper(ch) \/ IsLower(ch)
isprint_Any(ch) == TRUE

isprint(ch) == ch \in 32..126

IsDecimalDigit(ch) == isdigit(ch)
IsOctalDigit_ToNine(ch) == ch >= 48 /\ ch <= 57

IsOctalDigit(ch) == ch >= 48 /\ ch <= 55
IsHexadecimalDigit(ch) == isxdigit(ch)
IsLetter(ch) == isalpha(ch)
ToLower(ch) == tolower(ch)

(***************************************************************************)
(* Sequences                                                               *)
(***************************************************************************)
SeqsUpTo(S, n) == UNION {[1..k -> S] : k \in 0..n}

Repeat(c, n) == [i \in 1..n |-> c]

RECURSIVE Concat(_)
Concat(ss) == IF ss = <<>> THEN <<>> ELSE Head(ss) \o Concat(Tail(ss))

(***************************************************************************)
(* Unsigned integers of any size: little-endian limbs, base 2^16.          *)
(***************************************************************************)
LimbBase == 65536
LimbsPerU64 == 4

RECURSIVE BigNorm(_)
BigNorm(n) ==
  IF n # <<>> /\ n[Len(n)] = 0 THEN BigNorm(SubSeq(n, 1, Len(n) - 1)) ELSE n

\* n * m + a, exact, for small m and a
RECURSIVE BigMulAdd(_, _, _)
BigMulAdd(n, m, a) ==
  IF n = <<>> THEN (IF a = 0 THEN <<>> ELSE <<a>>)
  ELSE LET t == Head(n) * m + a
       IN  BigNorm(<<t % LimbBase>> \o BigMulAdd(Tail(n), m, t \div LimbBase))

\* n \div m, exact, for small m
RECURSIVE BigDivRem(_, _)
BigDivRem(n, m) ==
  IF n = <<>> THEN [q |-> <<>>, r |-> 0]
  ELSE LET hi == BigDivRem(Tail(n), m)
           t  == hi.r * LimbBase + Head(n)
       IN  [q |-> BigNorm(<<t \div m>> \o hi.q), r |-> t % m]

BigDivSmall(n, m) == BigDivRem(n, m).q

RECURSIVE BigGT(_, _)
BigGT(a, b) ==
  IF Len(a) # Len(b) THEN Len(a) > Len(b)
  ELSE IF a = <<>> THEN FALSE
  ELSE IF a[Len(a)] # b[Len(b)] THEN a[Len(a)] > b[Len(b)]
  ELSE BigGT(BigNorm(SubSeq(a, 1, Len(a) - 1)), BigNorm(SubSeq(b, 1, Len(b) - 1)))

\* n - 1 for n > 0
RECURSIVE BigPred(_)
BigPred(n) ==
  IF Head(n) > 0 THEN BigNorm(<<Head(n) - 1>> \o Tail(n))
  ELSE <<LimbBase - 1>> \o BigPred(Tail(n))

BigOfNat(k) == BigMulAdd(<<>>, 1, k)

\* the low 64 bits: what a std::uint64_t keeps
Wrap64(n) == BigNorm(SubSeq(n, 1, IF Len(n) < LimbsPerU64 THEN Len(n) ELSE LimbsPerU64))

FitsU64(n) == Len(n) <= LimbsPerU64

U64Max == Repeat(LimbBase - 1, LimbsPerU64)

(***************************************************************************)
(* ParseState and the combinator runtime (basic-parsers.h), as the         *)
(* specification describes them: a single-character pull primitive, a      *)
(* message sink that is never rolled back, and backtracking that restores  *)
(* the cursor only.  A parser maps the stream and a state [pos, msgs] to   *)
(* [ok, val, pos, msgs].                                                   *)
(***************************************************************************)
State(p, m) == [pos |-> p, msgs |-> m]
StateOf(r) == [pos |-> r.pos, msgs |-> r.msgs]
Ok(v, st) == [ok |-> TRUE, val |-> v, pos |-> st.pos, msgs |-> st.msgs]
Fail(st) == [ok |-> FALSE, val |-> <<>>, pos |-> st.pos, msgs |-> st.msgs]

PutMessage(st, at, text) ==
  [st EXCEPT !.msgs = Append(@, [at |-> at, text |-> text])]

nextChar(in, st) ==
  IF st.pos < Len(in)
    THEN Ok(<<in[st.pos + 1]>>, [st EXCEPT !.pos = @ + 1])
    ELSE Fail(st)

\* attempt(p): r is p's outcome from st; a failure leaves the cursor where it was
attempt(st, r) == IF r.ok THEN r ELSE [r EXCEPT !.pos = st.pos]

(***************************************************************************)
(* Space and spaces                                                        *)
(***************************************************************************)
Space(in, st) ==
  LET ch == nextChar(in, st)
  IN  IF ch.ok /\ (ch.val[1] = SP \/ ch.val[1] = TAB)
        THEN Ok(<<>>, StateOf(ch))
        ELSE Fail(StateOf(ch))

\* skipMany(space): never fails
RECURSIVE spaces(_, _)
spaces(in, st) ==
  LET r == attempt(st, Space(in, st))
  IN  IF r.ok THEN spaces(in, StateOf(r)) ELSE Ok(<<>>, StateOf(r))

(***************************************************************************)
(* TokenStringMatch                                                        *)
(***************************************************************************)
SizeMax == 2147483647

\* p[k] of the NUL-terminated spelling, k counted from 0
StrAt(str, k) == IF k < Len(str) THEN str[k + 1] ELSE NUL

\* the medial-space loop: skips spaces and tabs, keeps the next character
RECURSIVE MedialSpaces(_, _, _)
MedialSpaces(in, st, ch) ==
  IF ch = SP \/ ch = TAB
    THEN LET nx == nextChar(in, st)
         IN  IF nx.ok THEN MedialSpaces(in, StateOf(nx), nx.val[1]) ELSE Fail(StateOf(nx))
    ELSE Ok(<<ch>>, st)

TokenCharMatches_Inverted(ch, pch) == ch # tolower(pch)

TokenCharMatches(ch, pch) == ch = tolower(pch)

RECURSIVE TokenLoop(_, _, _, _, _, _, _)
TokenLoop(in, str, bytes, at, j, ch, st) ==
  IF ~(j < bytes /\ StrAt(str, j) # NUL) THEN spaces(in, st)
  ELSE
    LET spaceSkipping == StrAt(str, j) = SP
    IN  IF spaceSkipping /\
           (j + 1 = bytes \/ StrAt(str, j + 1) = SP \/ StrAt(str, j + 1) = NUL)
          THEN TokenLoop(in, str, bytes, at, j + 1, ch, st)
        ELSE
          LET got == IF ch = <<>> THEN nextChar(in, st) ELSE Ok(ch, st)
          IN  IF ~got.ok THEN Fail(StateOf(got))
              ELSE IF spaceSkipping
                THEN LET m == MedialSpaces(in, StateOf(got), got.val[1])
                     IN  IF m.ok
                           THEN TokenLoop(in, str, bytes, at, j + 1, m.val, StateOf(m))
                           ELSE Fail(StateOf(m))
              ELSE IF TokenCharMatches(got.val[1], StrAt(str, j))
                THEN TokenLoop(in, str, bytes, at, j + 1, <<>>, StateOf(got))
              ELSE Fail(PutMessage(StateOf(got), at, "expected token"))

TokenStringMatch(in, st, str, bytes) ==
  LET at == st.pos
      sp == spaces(in, st)
  IN  IF ~sp.ok THEN Fail(StateOf(sp))
      ELSE TokenLoop(in, str, bytes, at, 0, <<>>, StateOf(sp))

(***************************************************************************)
(* BOZLiteral                                                              *)
(***************************************************************************)
Bits == 64

HexadecimalDigitValue(ch) ==
  IF IsDecimalDigit(ch) THEN ch - Chr("0") ELSE toupper(ch) - Chr("A") + 10

\* every base letter taken as hexadecimal
baseChar_AlwaysHex(ch) ==
  IF toupper(ch) \in {Chr("B"), Chr("O"), Chr("Z"), Chr("X")} THEN <<4>> ELSE <<>>

\* the lambda baseChar: the shift it sets, <<>> when it returns false
baseChar(ch) ==
  CASE toupper(ch) = Chr("B") -> <<1>>
    [] toupper(ch) = Chr("O") -> <<3>>
    [] toupper(ch) = Chr("Z") -> <<4>>
    [] toupper(ch) = Chr("X") -> <<4>>
    [] OTHER -> <<>>

Pow2(n) == IF n = 0 THEN 1 ELSE IF n = 1 THEN 2 ELSE IF n = 3 THEN 8 ELSE 16

\* value <<= shift, value >> shift, value |= digit on a std::uint64_t; the
\* low shift bits are zero after the shift and the digit has been checked
\* to fit them, so the disjunction adds
ShiftLeft64(value, shift) == Wrap64(BigMulAdd(value, Pow2(shift), 0))
ShiftRight64(value, shift) == BigDivSmall(value, Pow2(shift))
Or64_Dropped(value, digit) == value

Or64(value, digit) == BigMulAdd(value, 1, digit)

BozReturn(r, shift, content, unset) ==
  [r |-> r, l |-> [shift |-> shift, content |-> content, unsetShiftUsed |-> unset]]

\* the body of the loop over content for the character ch; sh is *shift
\* and acc is the parse so far, with value in acc.val; a return {} of an
\* earlier iteration stands
BozStep(acc, ch, sh, at) ==
  IF ~acc.ok THEN acc
  ELSE
    LET digit == HexadecimalDigitValue(ch)
        was == acc.val
        shifted == ShiftLeft64(was, sh)
    IN  IF digit \div Pow2(sh) > 0
          THEN Fail(PutMessage(StateOf(acc), at, "bad digit in BOZ literal"))
        ELSE IF ShiftRight64(shifted, sh) # was
          THEN Fail(PutMessage(StateOf(acc), at, "excessive digits in BOZ literal"))
        ELSE Ok(Or64(shifted, digit), StateOf(acc))

\* the iterations for content[lo..hi] in order, the first half and then
\* the second; after a return {} no iteration runs
RECURSIVE BozFold(_, _, _, _, _, _)
BozFold(content, lo, hi, sh, at, acc) ==
  IF ~acc.ok \/ lo > hi THEN acc
  ELSE IF lo = hi THEN BozStep(acc, content[lo], sh, at)
  ELSE LET mid == (lo + hi) \div 2
       IN  BozFold(content, mid + 1, hi, sh, at, BozFold(content, lo, mid, sh, at, acc))

\* the loop over content
BozAccumulate(content, sh, value, at, st) ==
  BozFold(content, 1, Len(content), sh, at, Ok(value, st))

\* the loop that reads the digits up to the closing quote: it pulls
\* characters until the end of the stream or the first character that is
\* the quote or is not a hexadecimal digit, which it has consumed
BozContent(in, st, quote, content) ==
  LET stops == {i \in (st.pos + 1)..Len(in) : in[i] = quote \/ ~isxdigit(in[i])}
  IN  IF stops = {} THEN Fail([st EXCEPT !.pos = Len(in)])
      ELSE
        LET last == CHOOSE i \in stops : \A j \in stops : i <= j
        IN  IF in[last] = quote
              THEN Ok(content \o SubSeq(in, st.pos + 1, last - 1), [st EXCEPT !.pos = last])
              ELSE Fail([st EXCEPT !.pos = last])

\* the values an unset std::optional<int> may hold when it is read
GarbageShifts == {0, 1, 3, 4}

\* from the digits on; shift is the optional; garbage is what *shift reads
\* when the optional is empty
BozDigits(in, st, strict, shift, quote, garbage) ==
  LET at == st.pos
      c == BozContent(in, st, quote, <<>>)
  IN  IF ~c.ok THEN BozReturn(Fail(StateOf(c)), shift, <<>>, FALSE)
      ELSE
        LET content == c.val
            sfx == IF shift = <<>> /\ ~strict THEN nextChar(in, StateOf(c)) ELSE Ok(<<>>, StateOf(c))
            shift2 == IF shift = <<>> /\ ~strict /\ sfx.ok THEN baseChar(sfx.val[1]) ELSE shift
        IN  IF shift = <<>> /\ ~strict /\ (~sfx.ok \/ shift2 = <<>>)
              THEN BozReturn(Fail(StateOf(sfx)), shift2, content, FALSE)
            ELSE IF content = <<>>
              THEN BozReturn(Fail(PutMessage(StateOf(sfx), at, "no digit in BOZ literal")),
                             shift2, content, FALSE)
            ELSE IF shift2 = <<>>
              THEN BozReturn(BozAccumulate(content, garbage, <<>>, at, StateOf(sfx)),
                             shift2, content, TRUE)
            ELSE BozReturn(BozAccumulate(content, shift2[1], <<>>, at, StateOf(sfx)),
                           shift2, content, FALSE)

BOZLiteral(in, st, strict, garbage) ==
  LET sp == spaces(in, st)
      ch == nextChar(in, StateOf(sp))
  IN  IF ~sp.ok THEN BozReturn(Fail(StateOf(sp)), <<>>, <<>>, FALSE)
      ELSE IF ~ch.ok THEN BozReturn(Fail(StateOf(ch)), <<>>, <<>>, FALSE)
      ELSE IF toupper(ch.val[1]) = Chr("X") /\ strict
        THEN BozReturn(Fail(StateOf(ch)), <<>>, <<>>, FALSE)
      ELSE
        LET shift == baseChar(ch.val[1])
            ch2 == IF shift # <<>> THEN nextChar(in, StateOf(ch)) ELSE ch
        IN  IF ~ch2.ok THEN BozReturn(Fail(StateOf(ch2)), shift, <<>>, FALSE)
            ELSE
              LET quote == ch2.val[1]
              IN  IF quote # SQUOTE /\ quote # DQUOTE
                    THEN BozReturn(Fail(StateOf(ch2)), shift, <<>>, FALSE)
                    ELSE BozDigits(in, StateOf(ch2), strict, shift, quote, garbage)

(***************************************************************************)
(* CharPredicateGuardParser, digit, letter                                 *)
(***************************************************************************)
Char == 0..255

\* predicate_ is given as a function over the character codes
CharPredicateGuardParser(in, st, predicate, text) ==
  LET at == st.pos
      r == nextChar(in, st)
  IN  IF r.ok /\ predicate[r.val[1]] THEN r
      ELSE Fail(PutMessage(StateOf(r), at, text))

digit(in, st) == CharPredicateGuardParser(in, st, [ch \in Char |-> IsDecimalDigit(ch)], "expected digit")

\* applyFunction(ToLower, ...)
letter(in, st) ==
  LET r == CharPredicateGuardParser(in, st, [ch \in Char |-> IsLetter(ch)], "expected letter")
  IN  IF r.ok THEN Ok(<<ToLower(r.val[1])>>, StateOf(r)) ELSE r

(***************************************************************************)
(* DigitString                                                             *)
(***************************************************************************)
getDigit_Consuming(in, st) == digit(in, st)

getDigit(in, st) == attempt(st, digit(in, st))

\* n - d for a small d not above n's lowest limb
BigSubSmall(n, d) == [n EXCEPT ![1] = @ - d]

MulOverflows_Lenient(value) == BigGT(value, BigMulAdd(BigDivSmall(U64Max, 10), 1, 1))

\* value > std::numeric_limits<std::uint64_t>::max() / 10
MulOverflows(value) == BigGT(value, BigDivSmall(U64Max, 10))

AddOverflows_Never(value, digitValue) == FALSE

\* value > std::numeric_limits<std::uint64_t>::max() - digitValue
AddOverflows(value, digitValue) == BigGT(value, BigSubSmall(U64Max, digitValue))

\* the while loop; the result carries the value and, in ovf, the flag
RECURSIVE DigitLoop(_, _, _, _)
DigitLoop(in, st, value, overflow) ==
  LET nextDigit == getDigit(in, st)
  IN  IF ~nextDigit.ok
        THEN [r |-> Ok(value, StateOf(nextDigit)), ovf |-> overflow]
        ELSE
          LET o1 == MulOverflows(value) \/ overflow
              v1 == Wrap64(BigMulAdd(value, 10, 0))
              digitValue == nextDigit.val[1] - Chr("0")
              o2 == AddOverflows(v1, digitValue) \/ o1
              v2 == Wrap64(BigMulAdd(v1, 1, digitValue))
          IN  IF o2 THEN DigitLoop(in, StateOf(nextDigit), v2, TRUE)
                    ELSE DigitLoop(in, StateOf(nextDigit), v2, FALSE)

DigitString(in, st) ==
  LET at == st.pos
      firstDigit == getDigit(in, st)
  IN  IF ~firstDigit.ok THEN Fail(StateOf(firstDigit))
      ELSE
        LET l == DigitLoop(in, StateOf(firstDigit), BigOfNat(firstDigit.val[1] - Chr("0")), FALSE)
        IN  IF l.ovf
              THEN Ok(l.r.val, PutMessage(StateOf(l.r), at, "overflow in decimal literal"))
              ELSE l.r

(***************************************************************************)
(* HollerithLiteral                                                        *)
(***************************************************************************)
\* for (auto j = *charCount; j-- > 0;)
RECURSIVE HollerithLoop(_, _, _, _, _)
HollerithLoop(in, st, at, j, content) ==
  IF j = <<>> THEN Ok(content, st)
  ELSE
    LET ch == nextChar(in, st)
    IN  IF ~ch.ok \/ ~isprint(ch.val[1])
          THEN Fail(PutMessage(StateOf(ch), at, "insufficient or bad characters in Hollerith"))
          ELSE HollerithLoop(in, StateOf(ch), at, BigPred(j), Append(content, ch.val[1]))

CountBelowOne_Unchecked(charCount) == FALSE

\* *charCount < 1
CountBelowOne(charCount) == charCount = <<>>

HollerithLiteral(in, st) ==
  LET sp == spaces(in, st)
      at == sp.pos
      charCount == DigitString(in, StateOf(sp))
  IN  IF ~sp.ok THEN Fail(StateOf(sp))
      ELSE IF ~charCount.ok \/ CountBelowOne(charCount.val) THEN Fail(StateOf(charCount))
      ELSE
        LET h == letter(in, StateOf(charCount))
        IN  IF ~h.ok \/ (h.val[1] # Chr("h") /\ h.val[1] # Chr("H")) THEN Fail(StateOf(h))
            ELSE HollerithLoop(in, StateOf(h), at, charCount.val, <<>>)

(***************************************************************************)
(* CharMatch, CharLiteralChar, CharLiteral                                 *)
(***************************************************************************)
CharMatch(in, st, good) ==
  LET at == st.pos
      r == nextChar(in, st)
  IN  IF r.ok /\ r.val[1] = good THEN r
      ELSE Fail(PutMessage(StateOf(r), at, "expected character"))

\* a char holds 8 bits
CharOf(n) == n % 256

\* Result::Bare(c), Result::Escaped(c): <<ch, wasEscaped>>
Bare_AsEscaped(c) == <<c, 1>>

Bare(c) == <<c, 0>>

Escaped_AsBare(c) == <<c, 0>>

Escaped(c) == <<c, 1>>

octalDigit(in, st) ==
  attempt(st, CharPredicateGuardParser(in, st, [ch \in Char |-> IsOctalDigit(ch)], "expected octal digit"))

hexDigit(in, st) ==
  attempt(st, CharPredicateGuardParser(in, st, [ch \in Char |-> IsHexadecimalDigit(ch)], "expected hexadecimal digit"))

\* for (int j = ...; j-- > 0;) of the octal escape
RECURSIVE OctalLoop(_, _, _, _)
OctalLoop(in, st, ch, j) ==
  IF j = 0 THEN Ok(Escaped(ch), st)
  ELSE LET och == octalDigit(in, st)
       IN  IF och.ok
             THEN OctalLoop(in, StateOf(och), CharOf(8 * ch + och.val[1] - Chr("0")), j - 1)
             ELSE OctalLoop(in, StateOf(och), ch, j - 1)

\* for (int j = 0; j++ < 2;) of the hexadecimal escape
RECURSIVE HexLoop(_, _, _, _)
HexLoop(in, st, ch, j) ==
  IF j = 0 THEN Ok(Escaped(ch), st)
  ELSE LET och == hexDigit(in, st)
       IN  IF och.ok
             THEN HexLoop(in, StateOf(och), CharOf(16 * ch + HexadecimalDigitValue(och.val[1])), j - 1)
             ELSE HexLoop(in, StateOf(och), ch, j - 1)

\* the switch on the character after the backslash
EscapeSwitch(in, st, at, ch) ==
  CASE ch = Chr("a") -> Ok(Escaped(7), st)
    [] ch = Chr("b") -> Ok(Escaped(8), st)
    [] ch = Chr("f") -> Ok(Escaped(12), st)
    [] ch = Chr("n") -> Ok(Escaped(NL), st)
    [] ch = Chr("r") -> Ok(Escaped(13), st)
    [] ch = Chr("t") -> Ok(Escaped(TAB), st)
    [] ch = Chr("v") -> Ok(Escaped(11), st)
    [] ch = DQUOTE \/ ch = SQUOTE \/ ch = BACKSLASH -> Ok(Escaped(ch), st)
    [] ch = NL -> Fail(PutMessage(st, at, "unclosed character constant"))
    [] OTHER ->
         IF IsOctalDigit(ch)
           THEN OctalLoop(in, st, ch - Chr("0"), IF ch - Chr("0") > 3 THEN 1 ELSE 2)
         ELSE IF ch = Chr("x") \/ ch = Chr("X")
           THEN HexLoop(in, st, 0, 2)
         ELSE Ok(Escaped(ch), PutMessage(st, at, "bad escaped character"))

RawNewline_Accepted(ch) == FALSE

\* ch == '\n'
RawNewline(ch) == ch = NL

CharLiteralChar(in, st, escapes) ==
  LET at == st.pos
      och == nextChar(in, st)
  IN  IF ~och.ok THEN Fail(StateOf(och))
      ELSE IF RawNewline(och.val[1])
        THEN Fail(PutMessage(StateOf(och), at, "unclosed character constant"))
      ELSE IF och.val[1] # BACKSLASH \/ ~escapes
        THEN Ok(Bare(och.val[1]), StateOf(och))
      ELSE
        LET och2 == nextChar(in, StateOf(och))
        IN  IF ~och2.ok THEN Fail(StateOf(och2))
            ELSE EscapeSwitch(in, StateOf(och2), at, och2.val[1])

nextch(in, st, escapes) == attempt(st, CharLiteralChar(in, st, escapes))

doubled_Unrecognized(in, st, quote) == Fail(PutMessage(st, st.pos, "expected character"))

doubled(in, st, quote) == attempt(st, CharMatch(in, st, quote))

RECURSIVE CharLiteralLoop(_, _, _, _, _)
CharLiteralLoop(in, st, quote, escapes, str) ==
  LET ch == nextch(in, st, escapes)
  IN  IF ~ch.ok THEN Fail(StateOf(ch))
      ELSE IF ch.val[1] = quote /\ ch.val[2] = 0
        THEN LET d == doubled(in, StateOf(ch), quote)
             IN  IF ~d.ok THEN Ok(str, StateOf(d))
                 ELSE CharLiteralLoop(in, StateOf(d), quote, escapes, Append(str, ch.val[1]))
      ELSE CharLiteralLoop(in, StateOf(ch), quote, escapes, Append(str, ch.val[1]))

CharLiteral(in, st, quote, escapes) == CharLiteralLoop(in, st, quote, escapes, <<>>)

(***************************************************************************)
(* optionalBeforeColons.  The combinators >>, /, ||, ! and construct<T>{}  *)
(* are those of the runtime: a sequence fails where its failing part left  *)
(* the cursor, an alternative restores the cursor before its next branch,  *)
(* a negation consumes nothing.  The argument p names the parser PA.       *)
(***************************************************************************)
\* "..."_tok and the const char * operands of >> and /
Token(in, st, str) == TokenStringMatch(in, st, str, SizeMax)

Apply(in, st, p) ==
  IF p = "letter" THEN letter(in, st) ELSE DigitString(in, st)

\* construct<typename PA::resultType>{}
Construct(st, p) ==
  IF p = "letter" THEN Ok(<<NUL>>, st) ELSE Ok(BigOfNat(0), st)

\* a || b, given a's outcome from st: where b starts
Restored(st, a) == [pos |-> st.pos, msgs |-> a.msgs]

\* "," >> p / "::"
CommaItemColons(in, st, p) ==
  LET comma == Token(in, st, <<Chr(",")>>)
  IN  IF ~comma.ok THEN comma
      ELSE LET item == Apply(in, StateOf(comma), p)
           IN  IF ~item.ok THEN item
               ELSE LET colons == Token(in, StateOf(item), <<Chr(":"), Chr(":")>>)
                    IN  IF colons.ok THEN Ok(item.val, StateOf(colons))
                                     ELSE colons

\* "::" >> construct<typename PA::resultType>{}
ColonsOnly(in, st, p) ==
  LET colons == Token(in, st, <<Chr(":"), Chr(":")>>)
  IN  IF colons.ok THEN Construct(StateOf(colons), p) ELSE colons

\* !","_tok >> construct<typename PA::resultType>{}
NoComma(in, st, p) ==
  LET comma == Token(in, st, <<Chr(",")>>)
  IN  IF comma.ok THEN Fail(Restored(st, comma))
                  ELSE Construct(Restored(st, comma), p)

\* the last alternative without its negation
optionalBeforeColons_CommaAllowed(in, st, p) ==
  LET a == CommaItemColons(in, st, p)
  IN  IF a.ok THEN a
      ELSE LET b == ColonsOnly(in, Restored(st, a), p)
           IN  IF b.ok THEN b
               ELSE Construct(Restored(st, b), p)

optionalBeforeColons(in, st, p) ==
  LET a == CommaItemColons(in, st, p)
  IN  IF a.ok THEN a
      ELSE LET b == ColonsOnly(in, Restored(st, a), p)
           IN  IF b.ok THEN b
               ELSE NoComma(in, Restored(st, b), p)

(***************************************************************************)
(* The session                                                             *)
(***************************************************************************)
NoCall == [parser |-> "none", str |-> <<>>, bytes |-> 0, quote |-> NUL, p |-> "none"]
NoResult == [ok |-> FALSE, val |-> <<>>]
NoLocals == [shift |-> <<>>, content |-> <<>>, unsetShiftUsed |-> FALSE]

MaxSkip == 1
MaxTokLen == 4

TokChars == {Chr("a"), Chr("b"), Chr("A"), SP, TAB}

\* "ab" >> p, "a b"_tok, "Ab"_tok, TokenStringMatch{"ba", 1}, "b " / p, "a  b"_tok
Spellings ==
  { [str |-> <<Chr("a"), Chr("b")>>, bytes |-> SizeMax],
    [str |-> <<Chr("a"), SP, Chr("b")>>, bytes |-> 3],
    [str |-> <<Chr("A"), Chr("b")>>, bytes |-> 2],
    [str |-> <<Chr("b"), Chr("a")>>, bytes |-> 1],
    [str |-> <<Chr("b"), SP>>, bytes |-> SizeMax],
    [str |-> <<Chr("a"), SP, SP, Chr("b")>>, bytes |-> 4] }

InitWith(inputs) ==
  /\ input \in inputs
  /\ pos = 0
  /\ messages = <<>>
  /\ strictConformance \in BOOLEAN
  /\ backslashEscapes \in BOOLEAN
  /\ call = NoCall
  /\ start = 0
  /\ result = NoResult
  /\ locals = NoLocals

\* the driver pulls one character
GetNextChar ==
  /\ call.parser = "none"
  /\ pos < Len(input)
  /\ pos < MaxSkip
  /\ pos' = pos + 1
  /\ UNCHANGED <<input, messages, strictConformance, backslashEscapes,
                 call, start, result, locals>>

Returns(c, r, l) ==
  /\ call' = c
  /\ start' = pos
  /\ pos' = r.pos
  /\ messages' = r.msgs
  /\ result' = [ok |-> r.ok, val |-> r.val]
  /\ locals' = l
  /\ UNCHANGED <<input, strictConformance, backslashEscapes>>

ParseTokenStringMatch ==
  /\ call.parser = "none"
  /\ \E k \in Spellings :
       Returns([NoCall EXCEPT !.parser = "TokenStringMatch", !.str = k.str, !.bytes = k.bytes],
               TokenStringMatch(input, State(pos, messages), k.str, k.bytes),
               NoLocals)

InitTok == InitWith(SeqsUpTo(TokChars, MaxTokLen)) /\ strictConformance /\ backslashEscapes
NextTok == GetNextChar \/ ParseTokenStringMatch
SpecTok == InitTok /\ [][NextTok]_vars


(***************************************************************************)
(* Radix literals: every short stream over a small alphabet, and long      *)
(* digit runs around the 64-bit limit of each radix.                       *)
(***************************************************************************)
MaxBozLen == 4
MaxOver == 1

BozChars == {Chr("b"), Chr("X"), SQUOTE, DQUOTE, Chr("1"), Chr("8"), SP}

RunHeads == {Chr("0"), Chr("1"), Chr("2"), Chr("8"), Chr("f")}
RunFills == {Chr("0"), Chr("1"), Chr("7"), Chr("F")}
BaseLetters == {Chr("B"), Chr("o"), Chr("Z")}

LongRuns(w) ==
  { <<h>> \o Repeat(f, n - 1) :
      h \in RunHeads, f \in RunFills,
      n \in (Bits \div w - 1) .. (Bits \div w + 1 + MaxOver) }

LongBozInputs ==
  UNION { { <<b, SQUOTE>> \o run \o <<SQUOTE>> : run \in LongRuns(baseChar(b)[1]) }
          \cup { <<DQUOTE>> \o run \o <<DQUOTE, b>> : run \in LongRuns(baseChar(b)[1]) }
          : b \in BaseLetters }

\* a run that no longer fits 64 bits before its last digit, which is not a
\* digit of the radix
LateBadDigitInputs ==
  { <<b, SQUOTE, Chr("1")>> \o Repeat(Chr("0"), Bits \div baseChar(b)[1] + 1)
      \o <<Chr("8"), SQUOTE>> : b \in {Chr("B"), Chr("o")} }

ParseBOZLiteral ==
  /\ call.parser = "none"
  /\ LET b0 == BOZLiteral(input, State(pos, messages), strictConformance, 0)
     IN  \E garbage \in (IF b0.l.unsetShiftUsed THEN GarbageShifts ELSE {0}) :
           LET b == BOZLiteral(input, State(pos, messages), strictConformance, garbage)
           IN  Returns([NoCall EXCEPT !.parser = "BOZLiteral"], b.r, b.l)

InitBoz ==
  InitWith(SeqsUpTo(BozChars, MaxBozLen) \cup LongBozInputs \cup LateBadDigitInputs)
    /\ backslashEscapes
NextBoz == GetNextChar \/ ParseBOZLiteral
SpecBoz == InitBoz /\ [][NextBoz]_vars

(***************************************************************************)
(* Digit strings and Hollerith literals: every short stream over a small   *)
(* alphabet, and the decimal numerals around 2^64 and 10 * 2^64.           *)
(***************************************************************************)
MaxNumLen == 4
MaxNear == 3

NumChars == {Chr("0"), Chr("2"), Chr("h"), Chr("H"), Chr("x"), SP, NL}

\* the decimal numeral of n, without leading zeros ("" for 0)
RECURSIVE DecimalOf(_)
DecimalOf(n) ==
  IF n = <<>> THEN <<>>
  ELSE LET d == BigDivRem(n, 10) IN Append(DecimalOf(d.q), Chr("0") + d.r)

RECURSIVE BigSubNat(_, _)
BigSubNat(n, k) == IF k = 0 THEN n ELSE BigSubNat(BigPred(n), k - 1)

\* 2^64 - 1 - MaxNear .. 2^64 - 1 + 5 + MaxNear
NearU64Max ==
  {BigSubNat(U64Max, k) : k \in 0..MaxNear} \cup {BigMulAdd(U64Max, 1, k) : k \in 1..(5 + MaxNear)}

LongNumerals ==
  {DecimalOf(n) : n \in NearU64Max}
    \cup {DecimalOf(BigMulAdd(n, 10, d)) : n \in NearU64Max, d \in {0, 9}}

LongNumInputs ==
  {zeros \o num \o term :
     zeros \in {<<>>, <<Chr("0")>>}, num \in LongNumerals,
     term \in {<<>>, <<SP>>, <<Chr("h"), Chr("x")>>, <<Chr("H"), NL>>}}

ParseDigitString ==
  /\ call.parser = "none"
  /\ Returns([NoCall EXCEPT !.parser = "DigitString"],
             DigitString(input, State(pos, messages)), NoLocals)

ParseHollerithLiteral ==
  /\ call.parser = "none"
  /\ Returns([NoCall EXCEPT !.parser = "HollerithLiteral"],
             HollerithLiteral(input, State(pos, messages)), NoLocals)

InitNum ==
  InitWith(SeqsUpTo(NumChars, MaxNumLen) \cup LongNumInputs)
    /\ strictConformance /\ backslashEscapes
NextNum == GetNextChar \/ ParseDigitString \/ ParseHollerithLiteral
SpecNum == InitNum /\ [][NextNum]_vars

(***************************************************************************)
(* Character literals: every short stream over a small alphabet, and the   *)
(* examples a''b' and 'abc.                                                *)
(***************************************************************************)
MaxCharLen == 4

CharChars == {Chr("c"), Chr("n"), SQUOTE, DQUOTE, BACKSLASH, NL}

CharExamples ==
  { <<Chr("a"), SQUOTE, SQUOTE, Chr("b"), SQUOTE>>,
    <<SQUOTE, Chr("a"), SQUOTE, SQUOTE, Chr("b"), SQUOTE, Chr("c")>>,
    <<SQUOTE, Chr("a"), Chr("b"), Chr("c")>> }

\* the escapes that stand for the quote character: the backslash and the
\* quote, its code in octal (47 or 42, with or without a leading zero) and
\* in hexadecimal (27 or 22)
QuoteEscapes(quote) ==
  LET low == IF quote = SQUOTE THEN Chr("7") ELSE Chr("2")
  IN  { <<BACKSLASH, quote>>,
        <<BACKSLASH, Chr("4"), low>>,
        <<BACKSLASH, Chr("0"), Chr("4"), low>>,
        <<BACKSLASH, Chr("x"), Chr("2"), low>>,
        <<BACKSLASH, Chr("X"), Chr("2"), low>> }

\* literals with an escaped quote in them
EscapedQuoteInputs ==
  UNION { { pre \o esc \o mid \o tail :
              pre \in {<<>>, <<Chr("c")>>, <<quote, quote>>},
              esc \in QuoteEscapes(quote),
              mid \in {<<>>, <<Chr("c")>>, <<quote, quote>>},
              tail \in {<<>>, <<quote>>, <<quote, Chr("c")>>, <<NL>>} }
          : quote \in {SQUOTE, DQUOTE} }

ParseCharLiteral ==
  /\ call.parser = "none"
  /\ \E quote \in {SQUOTE, DQUOTE} :
       Returns([NoCall EXCEPT !.parser = "CharLiteral", !.quote = quote],
               CharLiteral(input, State(pos, messages), quote, backslashEscapes),
               NoLocals)

InitChar ==
  InitWith(SeqsUpTo(CharChars, MaxCharLen) \cup CharExamples \cup EscapedQuoteInputs)
    /\ strictConformance
NextChar == GetNextChar \/ ParseCharLiteral
SpecChar == InitChar /\ [][NextChar]_vars

(***************************************************************************)
(* All token parsers on one session: every short stream over an alphabet   *)
(* that holds a character of each token, and a prefixed radix literal      *)
(* followed by a base letter.                                              *)
(***************************************************************************)
MaxLen == 4

AllChars == {Chr("a"), Chr("b"), Chr("h"), Chr("1"), SQUOTE, SP}

AllExamples ==
  { <<Chr("b"), SQUOTE, Chr("1"), SQUOTE, Chr("b")>>,
    <<SQUOTE, Chr("1"), SQUOTE, Chr("b"), Chr("b")>>,
    <<Chr("a"), SP, SP, Chr("b"), SP, Chr("a")>> }

Init == InitWith(SeqsUpTo(AllChars, MaxLen) \cup AllExamples)
Next ==
  \/ ParseTokenStringMatch
  \/ ParseCharLiteral
  \/ ParseBOZLiteral
  \/ ParseDigitString
  \/ ParseHollerithLiteral
Spec == Init /\ [][Next]_vars

(***************************************************************************)
(* optionalBeforeColons(letter) and optionalBeforeColons(DigitString{}) on *)
(* every short stream of commas, colons, a letter, a digit and spaces.     *)
(***************************************************************************)
MaxColonsLen == 5

ColonsChars == {Chr(","), Chr(":"), Chr("a"), Chr("1"), SP}

ParseOptionalBeforeColons ==
  /\ call.parser = "none"
  /\ \E p \in {"letter", "DigitString"} :
       Returns([NoCall EXCEPT !.parser = "optionalBeforeColons", !.p = p],
               optionalBeforeColons(input, State(pos, messages), p),
               NoLocals)

InitColons ==
  InitWith(SeqsUpTo(ColonsChars, MaxColonsLen)) /\ strictConformance /\ backslashEscapes
NextColons == GetNextChar \/ ParseOptionalBeforeColons
SpecColons == InitColons /\ [][NextColons]_vars

(***************************************************************************)
(* Literal-character units: CharLiteralChar called again and again from    *)
(* the start of every short stream over the escape letters, the quotes,    *)
(* the backslash, the newline, digits, x and an ordinary letter.           *)
(***************************************************************************)
MaxUnitLen == 2

UnitChars ==
  { Chr("a"), Chr("b"), Chr("f"), Chr("n"), Chr("r"), Chr("t"), Chr("v"),
    DQUOTE, SQUOTE, BACKSLASH, NL, Chr("c"), Chr("1"), Chr("8"), Chr("x") }

ParseCharLiteralChar ==
  /\ call.parser = "none" \/ result.ok
  /\ Returns([NoCall EXCEPT !.parser = "CharLiteralChar"],
             CharLiteralChar(input, State(pos, messages), backslashEscapes),
             NoLocals)

InitUnit == InitWith(SeqsUpTo(UnitChars, MaxUnitLen)) /\ strictConformance
NextUnit == ParseCharLiteralChar
SpecUnit == InitUnit /\ [][NextUnit]_vars

(***************************************************************************)
(* Claims about TokenStringMatch                                           *)
(***************************************************************************)
Min(a, b) == IF a < b THEN a ELSE b

\* what the call had before it: the stream from the call's start position
Rest == SubSeq(input, start + 1, Len(input))

\* the spelling the matcher uses: the first bytes_ characters of str_
Spelled == SubSeq(call.str, 1, Min(call.bytes, Len(call.str)))

Folded(s) == [i \in 1..Len(s) |-> tolower(s[i])]

Squeezed(s) == SelectSeq(s, LAMBDA c : c # SP)

Blanks == SeqsUpTo({SP, TAB}, MaxTokLen)

Posted(text) == \E i \in 1..Len(messages) : messages[i].text = text

PostedAt(text, at) ==
  \E i \in 1..Len(messages) : messages[i] = [at |-> at, text |-> text]

\* s is k with the character at one position, not a space of k, replaced
MutatedAt(s, k, i) ==
  /\ Len(s) = Len(k)
  /\ i \in 1..Len(k)
  /\ k[i] # SP
  /\ s[i] # k[i]
  /\ \A n \in 1..Len(k) : n # i => s[n] = k[n]

\* C1 as claimed: a one-character mutation of the spelling at a non-medial
\* position makes TokenStringMatch fail and leaves the cursor at the
\* position it had when the call started.
C1_CursorRestoredOnMismatch ==
  (call.parser = "TokenStringMatch" /\ \E i \in 1..Len(Spelled) : MutatedAt(Rest, Spelled, i))
    => (~result.ok /\ pos = start)

\* C1 as amended: when the replacement differs from the spelling's
\* character even after case folding, TokenStringMatch fails and the cursor
\* is not restored: it stays strictly after the call's start, just after
\* the last character pulled, which is the mismatching character (then the
\* expected-token message is posted at the start location) or the end of
\* the input.
C1_FailsCursorLeftAdvanced ==
  (call.parser = "TokenStringMatch" /\
     \E i \in 1..Len(Spelled) :
        MutatedAt(Rest, Spelled, i) /\ tolower(Rest[i]) # tolower(Spelled[i]))
    => /\ ~result.ok
       /\ pos > start
       /\ pos <= Len(input)
       /\ \/ messages = <<[at |-> start, text |-> "expected token"]>>
          \/ messages = <<>> /\ pos = Len(input)

\* C1 witness: a mutated spelling was parsed from a nonzero start position,
\* failed with the diagnostic, and the cursor is beyond the start.
C1_Witness ==
  /\ call.parser = "TokenStringMatch"
  /\ start > 0
  /\ \E i \in 1..Len(Spelled) :
        MutatedAt(Rest, Spelled, i) /\ tolower(Rest[i]) # tolower(Spelled[i])
  /\ ~result.ok
  /\ pos > start
  /\ PostedAt("expected token", start)

\* C2 as claimed: for any spelling K, TokenStringMatch succeeds on K, on K
\* after spaces/tabs, on K before spaces/tabs, with or without the space at
\* a medial boundary, and leaves the cursor after the trailing blanks.
C2_SucceedsOnSpellingVariants ==
  (call.parser = "TokenStringMatch" /\
     \E lead \in Blanks, trail \in Blanks, body \in {Spelled, Squeezed(Spelled)} :
        Rest = lead \o body \o trail)
    => (result.ok /\ pos = Len(input))

\* C3 as claimed: an input that equals the spelling up to letter case,
\* with upper-case letters in the stream or in the spelling, is matched.
C3_CaseInsensitiveMatch ==
  (call.parser = "TokenStringMatch" /\ Folded(Rest) = Folded(Spelled))
    => result.ok

(***************************************************************************)
(* Claims about BOZLiteral                                                 *)
(***************************************************************************)
RECURSIVE LeadingBlanks(_)
LeadingBlanks(s) ==
  IF s # <<>> /\ (Head(s) = SP \/ Head(s) = TAB) THEN 1 + LeadingBlanks(Tail(s)) ELSE 0

\* the stream at the call, after its leading blanks
Body == SubSeq(Rest, LeadingBlanks(Rest) + 1, Len(Rest))

IsQuote(ch) == ch = SQUOTE \/ ch = DQUOTE
IsBaseLetter(ch) == toupper(ch) \in {Chr("B"), Chr("O"), Chr("Z"), Chr("X")}
RadixWidth(ch) == IF toupper(ch) = Chr("B") THEN 1 ELSE IF toupper(ch) = Chr("O") THEN 3 ELSE 4

\* s[from] is a quote, hexadecimal digits follow, and s[k] is the same quote
ClosesAt(s, from, k) ==
  /\ from >= 1 /\ k > from /\ k <= Len(s)
  /\ IsQuote(s[from])
  /\ s[k] = s[from]
  /\ \A i \in (from + 1)..(k - 1) : isxdigit(s[i])

\* the literal written the standard way: base letter, quote, digits, quote
PrefixedLiteral(k) == Len(Body) >= 3 /\ IsBaseLetter(Body[1]) /\ ClosesAt(Body, 2, k)

\* the extension: quote, digits, quote, base letter
SuffixedLiteral(k) ==
  /\ ClosesAt(Body, 1, k)
  /\ k + 1 <= Len(Body)
  /\ IsBaseLetter(Body[k + 1])

\* the exact value of a digit run in base 2^w
\* bit b (0 the lowest) of the number the digits write in base 2^w, each
\* digit giving w bits
DigitBit(digits, w, b) ==
  LET i == Len(digits) - (b \div w)
      k == b % w
  IN  IF i < 1 THEN 0
      ELSE (HexadecimalDigitValue(digits[i])
              \div (IF k = 0 THEN 1 ELSE IF k = 1 THEN 2 ELSE IF k = 2 THEN 4 ELSE 8)) % 2

\* bits from..from+15 of that number as one limb, bit by bit from the top
RECURSIVE LimbOfBits(_, _, _, _)
LimbOfBits(digits, w, from, k) ==
  IF k = 0 THEN 0
  ELSE 2 * LimbOfBits(digits, w, from + 1, k - 1) + DigitBit(digits, w, from)

PositionalValue(digits, w) ==
  BigNorm([j \in 1..((w * Len(digits) + 15) \div 16) |->
             LimbOfBits(digits, w, 16 * (j - 1), 16)])

DigitsFit(digits, w) ==
  \A i \in 1..Len(digits) : HexadecimalDigitValue(digits[i]) < Pow2(w)

\* the call read a well-formed literal of radix width w with these digits
BozLiteralRead(digits, w) ==
  /\ call.parser = "BOZLiteral"
  /\ \E k \in 1..Len(Body) :
       \/ /\ PrefixedLiteral(k)
          /\ ~(strictConformance /\ toupper(Body[1]) = Chr("X"))
          /\ digits = SubSeq(Body, 3, k - 1)
          /\ w = RadixWidth(Body[1])
       \/ /\ SuffixedLiteral(k)
          /\ ~strictConformance
          /\ digits = SubSeq(Body, 2, k - 1)
          /\ w = RadixWidth(Body[k + 1])

BozDigitRuns == {SubSeq(Body, i, j) : i \in 1..Len(Body), j \in 1..Len(Body)}

\* C4 as claimed: a digit run, all digits valid for the radix, whose value
\* needs more than 64 bits posts "excessive digits in BOZ literal" and the
\* parse still returns the true value modulo 2^64.
C4_OverflowReturnsWrappedValue ==
  \A digits \in BozDigitRuns, w \in {1, 3, 4} :
    (/\ BozLiteralRead(digits, w)
     /\ digits # <<>>
     /\ DigitsFit(digits, w)
     /\ ~FitsU64(PositionalValue(digits, w)))
      => /\ Posted("excessive digits in BOZ literal")
         /\ result.ok
         /\ result.val = Wrap64(PositionalValue(digits, w))

\* C5 as claimed: under strict conformance a literal whose first character
\* is X or x is rejected, a literal that starts directly with a quote fails
\* whatever its digits, and the digits are never accumulated with the radix
\* width unset.
C5_StrictRejectsUnprefixed ==
  (call.parser = "BOZLiteral" /\ strictConformance /\ Body # <<>>)
    => /\ toupper(Body[1]) = Chr("X") => ~result.ok
       /\ IsQuote(Body[1]) => (~result.ok /\ ~locals.unsetShiftUsed)

(***************************************************************************)
(* Claims about DigitString and HollerithLiteral                           *)
(***************************************************************************)
RECURSIVE LeadingDigits(_)
LeadingDigits(s) ==
  IF s # <<>> /\ isdigit(Head(s)) THEN <<Head(s)>> \o LeadingDigits(Tail(s)) ELSE <<>>

\* the exact value of a decimal numeral
RECURSIVE DecimalValue(_)
DecimalValue(digits) ==
  IF digits = <<>> THEN <<>>
  ELSE BigMulAdd(DecimalValue(SubSeq(digits, 1, Len(digits) - 1)), 10,
                 digits[Len(digits)] - Chr("0"))

MessagesWith(text) == SelectSeq(messages, LAMBDA m : m.text = text)

\* 18446744073709551616
TwoTo64Numeral ==
  [i \in 1..20 |-> Chr("0") + <<1, 8, 4, 4, 6, 7, 4, 4, 0, 7, 3, 7, 0, 9, 5, 5, 1, 6, 1, 6>>[i]]

\* C6: on a maximal run of one or more decimal digits DigitString succeeds,
\* consumes the run, returns its true value modulo 2^64, and posts
\* "overflow in decimal literal", once and at the run's start, exactly when
\* the true value is 2^64 or more.
C6_DigitStringWrapsAndReports ==
  (call.parser = "DigitString" /\ LeadingDigits(Rest) # <<>>)
    => LET run == LeadingDigits(Rest)
           posted == MessagesWith("overflow in decimal literal")
       IN  /\ result.ok
           /\ pos = start + Len(run)
           /\ result.val = Wrap64(DecimalValue(run))
           /\ posted = IF FitsU64(DecimalValue(run)) THEN <<>>
                       ELSE <<[at |-> start, text |-> "overflow in decimal literal"]>>

\* C6 witness: 18446744073709551616 was parsed: 0 is returned and the
\* overflow is posted at the start.
C6_Witness ==
  /\ call.parser = "DigitString"
  /\ LeadingDigits(Rest) = TwoTo64Numeral
  /\ result = [ok |-> TRUE, val |-> <<>>]
  /\ PostedAt("overflow in decimal literal", start)

\* the call is HollerithLiteral on a count whose value is zero
ZeroCountHollerith ==
  /\ call.parser = "HollerithLiteral"
  /\ LeadingDigits(Body) # <<>>
  /\ DecimalValue(LeadingDigits(Body)) = <<>>

\* C7 as claimed: HollerithLiteral with a character count of 0 yields an
\* absent result and no diagnostic is posted during the call.
C7_ZeroCountNoDiagnostic ==
  ZeroCountHollerith => (~result.ok /\ messages = <<>>)

\* C7 as amended: HollerithLiteral with a character count of 0 yields an
\* absent result with the cursor left after the count; HollerithLiteral
\* posts nothing itself, but the sink holds exactly one diagnostic,
\* "expected digit", posted at the character after the count by the digit
\* guard that ended the count's digit run.
C7_ZeroCountOnlyExpectedDigit ==
  ZeroCountHollerith
    => LET after == start + LeadingBlanks(Rest) + Len(LeadingDigits(Body))
       IN  /\ ~result.ok
           /\ pos = after
           /\ messages = <<[at |-> after, text |-> "expected digit"]>>

\* C7 witness: 0Hx was parsed
C7_Witness ==
  /\ call.parser = "HollerithLiteral"
  /\ Rest = <<Chr("0"), Chr("H"), Chr("x")>>
  /\ ~result.ok
  /\ messages = <<[at |-> start + 1, text |-> "expected digit"]>>

(***************************************************************************)
(* Claims about CharLiteral                                                *)
(***************************************************************************)
\* s with every quote doubled, and its inverse
RECURSIVE Doubling(_, _)
Doubling(s, quote) ==
  IF s = <<>> THEN <<>>
  ELSE (IF Head(s) = quote THEN <<quote, quote>> ELSE <<Head(s)>>) \o Doubling(Tail(s), quote)

RECURSIVE Undoubling(_, _)
Undoubling(s, quote) ==
  IF s = <<>> THEN <<>>
  ELSE IF Head(s) = quote /\ Len(s) >= 2 /\ s[2] = quote
    THEN <<quote>> \o Undoubling(Tail(Tail(s)), quote)
  ELSE <<Head(s)>> \o Undoubling(Tail(s), quote)

Contains(s, c) == \E i \in 1..Len(s) : s[i] = c

\* seg is the body of a literal: every quote in it is doubled, there is no
\* newline, and no backslash when escapes are enabled
LiteralBody(seg) ==
  /\ Doubling(Undoubling(seg, call.quote), call.quote) = seg
  /\ ~Contains(seg, NL)
  /\ backslashEscapes => ~Contains(seg, BACKSLASH)

\* the stream at the call is a literal body closed by the quote at k
ClosedAt(k) ==
  /\ call.parser = "CharLiteral"
  /\ k \in 1..Len(Rest)
  /\ LiteralBody(SubSeq(Rest, 1, k - 1))
  /\ Rest[k] = call.quote
  /\ (k = Len(Rest) \/ Rest[k + 1] # call.quote)

\* C9: started just after the opening quote, on S with every quote doubled
\* followed by the closing quote, where S has no newline (and no backslash
\* when escapes are enabled), CharLiteral returns exactly S and stops after
\* the closing quote: each doubled quote yields one quote character.
C9_QuotedRoundTrip ==
  \A k \in 1..Len(Rest) :
    ClosedAt(k)
      => /\ result.ok
         /\ result.val = Undoubling(SubSeq(Rest, 1, k - 1), call.quote)
         /\ pos = start + k

\* C9 witness: a''b' was read after an opening quote and a'b was returned
C9_Witness ==
  /\ call.parser = "CharLiteral"
  /\ call.quote = SQUOTE
  /\ start = 1
  /\ input[1] = SQUOTE
  /\ Len(Rest) >= 5
  /\ SubSeq(Rest, 1, 5) = <<Chr("a"), SQUOTE, SQUOTE, Chr("b"), SQUOTE>>
  /\ result = [ok |-> TRUE, val |-> <<Chr("a"), SQUOTE, Chr("b")>>]

\* seg is a literal body without a terminating quote
UnterminatedBody(seg) ==
  /\ ~Contains(seg, NL)
  /\ IF backslashEscapes /\ Contains(seg, BACKSLASH)
       THEN ~Contains(seg, call.quote)
       ELSE Doubling(Undoubling(seg, call.quote), call.quote) = seg

\* C10: CharLiteral fails when no closing quote is found.  At the end of
\* the input it fails and posts nothing more: the sink holds no "unclosed
\* character constant", only what escape units posted.  At a raw newline,
\* met directly or right after a backslash with escapes enabled, it fails
\* and posts "unclosed character constant" once, at the start of that unit.
C10_UnclosedLiteralFails ==
  call.parser = "CharLiteral" =>
    /\ UnterminatedBody(Rest)
         => /\ ~result.ok
            /\ ~Posted("unclosed character constant")
            /\ pos \in {Len(input) - 1, Len(input)}
            /\ \A i \in 1..Len(messages) :
                 /\ backslashEscapes
                 /\ messages[i].text = "bad escaped character"
                 /\ input[messages[i].at + 1] = BACKSLASH
    /\ \A k \in 1..Len(Rest) :
         (Rest[k] = NL /\ UnterminatedBody(SubSeq(Rest, 1, k - 1)))
           => /\ ~result.ok
              /\ MessagesWith("unclosed character constant")
                   = <<[at |-> pos, text |-> "unclosed character constant"]>>
              /\ \/ pos = start + k - 1
                 \/ /\ backslashEscapes
                    /\ k >= 2
                    /\ Rest[k - 1] = BACKSLASH
                    /\ pos = start + k - 2

\* C10 witness: c, backslash, newline was read with escapes enabled and
\* the literal failed with the diagnostic posted at the backslash
C10_Witness ==
  /\ call.parser = "CharLiteral"
  /\ backslashEscapes
  /\ Rest = <<Chr("c"), BACKSLASH, NL>>
  /\ ~result.ok
  /\ messages = <<[at |-> start + 1, text |-> "unclosed character constant"]>>

(***************************************************************************)
(* Claim about every token parser                                          *)
(***************************************************************************)
Consumed == SubSeq(input, start + 1, pos)

NonBlanks(s) == SelectSeq(s, LAMBDA c : c # SP /\ c # TAB)

\* where the radix literal at the call ends, counted in Body
BozLiteralEnd(k) ==
  \/ PrefixedLiteral(k) /\ pos = start + LeadingBlanks(Rest) + k
  \/ /\ ClosesAt(Body, 1, k)
     /\ pos = start + LeadingBlanks(Rest) + k + (IF strictConformance THEN 0 ELSE 1)
     /\ ~strictConformance => IsBaseLetter(Body[k + 1])

\* C8: a successful token parse consumes exactly its token.  DigitString
\* stops after the last digit of the run; CharLiteral stops after the
\* closing quote; BOZLiteral stops after the closing quote, or after the
\* base letter of the suffix form; HollerithLiteral stops after the count,
\* the H and as many characters as it returns; TokenStringMatch consumes
\* blanks and the characters of the spelling only, through the trailing
\* blanks.
C8_SuccessConsumesExactlyTheToken ==
  result.ok =>
    /\ pos >= start /\ pos <= Len(input)
    /\ call.parser = "DigitString" =>
         pos = start + Len(LeadingDigits(Rest))
    /\ call.parser = "CharLiteral" =>
         /\ pos > start
         /\ input[pos] = call.quote
         /\ Len(result.val) < pos - start
    /\ call.parser = "BOZLiteral" =>
         \E k \in 1..Len(Body) : BozLiteralEnd(k)
    /\ call.parser = "HollerithLiteral" =>
         LET count == LeadingDigits(Body)
         IN  /\ count # <<>>
             /\ pos = start + LeadingBlanks(Rest) + Len(count) + 1 + Len(result.val)
             /\ result.val = SubSeq(input, pos - Len(result.val) + 1, pos)
    /\ call.parser = "TokenStringMatch" =>
         /\ NonBlanks(Consumed) = NonBlanks(Folded(Spelled))
         /\ pos = Len(input) \/ input[pos + 1] \notin {SP, TAB}

\* C8 witness: a digit string followed by a letter was parsed and the
\* cursor is at the letter
C8_Witness ==
  /\ call.parser = "DigitString"
  /\ result.ok
  /\ pos < Len(input)
  /\ isalpha(input[pos + 1])
  /\ isdigit(input[pos])

(***************************************************************************)
(* Claim about optionalBeforeColons                                        *)
(***************************************************************************)
After(s, n) == SubSeq(s, n + 1, Len(s))

Unblank(s) == After(s, LeadingBlanks(s))

ColonsAt(s) == Len(s) >= 2 /\ s[1] = Chr(":") /\ s[2] = Chr(":")

\* the item of the called construct at the head of s: its length, 0 if none
ItemLen(s) ==
  IF call.p = "letter" THEN (IF s # <<>> /\ isalpha(s[1]) THEN 1 ELSE 0)
                       ELSE Len(LeadingDigits(s))

ItemValue(s) ==
  IF call.p = "letter" THEN <<tolower(s[1])>>
                       ELSE Wrap64(DecimalValue(LeadingDigits(s)))

DefaultValue == IF call.p = "letter" THEN <<NUL>> ELSE <<>>

\* the cursor after a "::" at the head of s, a suffix of the stream
PastColons(s) == Len(input) - Len(Unblank(After(s, 2)))

\* C11: optionalBeforeColons(P) is an ordered choice.  After a comma, P and
\* "::" must follow and the result is P's; without them the construct
\* fails.  A stream starting with "::" gives the default value of P's
\* result type.  Any other stream gives the default value and nothing is
\* consumed.
C11_OptionalBeforeColons ==
  call.parser = "optionalBeforeColons" =>
    IF Body # <<>> /\ Body[1] = Chr(",")
      THEN LET item == Unblank(Tail(Body))
               colons == Unblank(After(item, ItemLen(item)))
           IN  IF ItemLen(item) > 0 /\ ColonsAt(colons)
                 THEN /\ result = [ok |-> TRUE, val |-> ItemValue(item)]
                      /\ pos = PastColons(colons)
                 ELSE ~result.ok
    ELSE IF ColonsAt(Body)
      THEN /\ result = [ok |-> TRUE, val |-> DefaultValue]
           /\ pos = PastColons(Body)
      ELSE /\ result = [ok |-> TRUE, val |-> DefaultValue]
           /\ pos = start

\* C11 witness: ", a" was read by optionalBeforeColons(letter) and the
\* construct failed
C11_Witness ==
  /\ call.parser = "optionalBeforeColons"
  /\ call.p = "letter"
  /\ Rest = <<Chr(","), SP, Chr("a")>>
  /\ ~result.ok

(***************************************************************************)
(* More claims about BOZLiteral                                            *)
(***************************************************************************)
\* what a literal with these digits and radix width gives when its value
\* fits 64 bits
BozOutcome(digits, w) ==
  /\ result.ok => (digits # <<>> /\ DigitsFit(digits, w))
  /\ result.ok => result.val = PositionalValue(digits, w)
  /\ (digits # <<>> /\ DigitsFit(digits, w) /\ FitsU64(PositionalValue(digits, w)))
       => result.ok

\* C12: with strict conformance off and no prefix, the character after the
\* closing quote must be a base letter; it is consumed and gives the radix
\* width of the digits; the parse fails when it is missing or is not a
\* base letter.  After a prefix nothing past the closing quote is consumed.
C12_SuffixBaseLetter ==
  call.parser = "BOZLiteral" =>
    \A k \in 1..Len(Body) :
      /\ (~strictConformance /\ ClosesAt(Body, 1, k)) =>
           IF k + 1 <= Len(Body) /\ IsBaseLetter(Body[k + 1])
             THEN /\ pos = start + LeadingBlanks(Rest) + k + 1
                  /\ BozOutcome(SubSeq(Body, 2, k - 1), RadixWidth(Body[k + 1]))
             ELSE ~result.ok
      /\ (PrefixedLiteral(k) /\ ~(strictConformance /\ toupper(Body[1]) = Chr("X"))) =>
           /\ pos = start + LeadingBlanks(Rest) + k
           /\ BozOutcome(SubSeq(Body, 3, k - 1), RadixWidth(Body[1]))

\* C12 witness: "8"X was read with strict conformance off and gave 8
C12_Witness ==
  /\ call.parser = "BOZLiteral"
  /\ ~strictConformance
  /\ Body = <<DQUOTE, Chr("8"), DQUOTE, Chr("X")>>
  /\ pos = Len(input)
  /\ result = [ok |-> TRUE, val |-> BigOfNat(8)]

(***************************************************************************)
(* More claims about HollerithLiteral                                      *)
(***************************************************************************)
\* the digits of the count, and what follows the H
HollerithCount == LeadingDigits(Body)
HollerithText == After(Body, Len(HollerithCount) + 1)

\* the stream at the call is blanks, a count, and H or h
HollerithHead ==
  /\ call.parser = "HollerithLiteral"
  /\ HollerithCount # <<>>
  /\ Len(Body) > Len(HollerithCount)
  /\ Body[Len(HollerithCount) + 1] \in {Chr("h"), Chr("H")}

\* the printable characters: space to tilde
Printable == SP..Chr("~")

\* n printable characters follow the H
Sufficient(n) ==
  /\ Len(n) = 1
  /\ n[1] <= Len(HollerithText)
  /\ \A i \in 1..n[1] : HollerithText[i] \in Printable

\* a literal of n >= 1 characters: the next n characters are returned as
\* they are, or the parse fails with the diagnostic at the count
HollerithOutcome(n) ==
  IF Sufficient(n)
    THEN /\ result = [ok |-> TRUE, val |-> SubSeq(HollerithText, 1, n[1])]
         /\ pos = Len(input) - Len(HollerithText) + n[1]
         /\ ~Posted("insufficient or bad characters in Hollerith")
    ELSE /\ ~result.ok
         /\ MessagesWith("insufficient or bad characters in Hollerith")
              = <<[at |-> start + LeadingBlanks(Rest),
                   text |-> "insufficient or bad characters in Hollerith"]>>

\* C13 as claimed: n is the number the count's digits write
C13_ReturnsCountCharacters ==
  (HollerithHead /\ DecimalValue(HollerithCount) # <<>>)
    => HollerithOutcome(DecimalValue(HollerithCount))

\* C13: after optional blanks, a count and H or h, with n >= 1 the count
\* as DigitString returns it (the digits' value modulo 2^64), the parse
\* returns exactly the next n characters when they are all printable, and
\* otherwise fails and posts "insufficient or bad characters in Hollerith".
C13_ReturnsWrappedCountCharacters ==
  (HollerithHead /\ Wrap64(DecimalValue(HollerithCount)) # <<>>)
    => HollerithOutcome(Wrap64(DecimalValue(HollerithCount)))

\* C13 witness: the count 18446744073709551617 (2^64 + 1), h and x were
\* read and the literal is the one character x
C13_Witness ==
  /\ HollerithHead
  /\ HollerithCount = DecimalOf(BigMulAdd(U64Max, 1, 2))
  /\ result = [ok |-> TRUE, val |-> <<Chr("x")>>]

(***************************************************************************)
(* Claims about CharLiteralChar                                            *)
(***************************************************************************)
\* the single-letter escapes and the codes they stand for
LetterEscapes ==
  { <<Chr("a"), 7>>, <<Chr("b"), 8>>, <<Chr("f"), 12>>, <<Chr("n"), NL>>,
    <<Chr("r"), 13>>, <<Chr("t"), TAB>>, <<Chr("v"), 11>> }

UnitRead == call.parser = "CharLiteralChar" /\ Rest # <<>>

\* C14: with backslash escapes enabled, a backslash and a single-letter
\* escape are one unit, the mapped code with the escaped flag set; with
\* escapes disabled every character but the newline is a raw unit of its
\* own with the flag clear, the backslash included, so a backslash and n
\* are two units.
C14_EscapeDialectToggle ==
  UnitRead =>
    /\ (backslashEscapes /\ Len(Rest) >= 2 /\ Rest[1] = BACKSLASH) =>
         \A e \in LetterEscapes :
           Rest[2] = e[1] =>
             /\ result = [ok |-> TRUE, val |-> <<e[2], 1>>]
             /\ pos = start + 2
    /\ (~backslashEscapes /\ Rest[1] # NL) =>
         /\ result = [ok |-> TRUE, val |-> <<Rest[1], 0>>]
         /\ pos = start + 1

\* C14 witness: with escapes disabled the stream backslash, n has been
\* read as two units and the second is the raw n
C14_Witness ==
  /\ UnitRead
  /\ ~backslashEscapes
  /\ input = <<BACKSLASH, Chr("n")>>
  /\ start = 1
  /\ result = [ok |-> TRUE, val |-> <<Chr("n"), 0>>]

\* the characters the escape switch knows after a backslash
RecognizedEscapes ==
  {e[1] : e \in LetterEscapes} \cup {DQUOTE, SQUOTE, BACKSLASH, NL}
    \cup (Chr("0")..Chr("7")) \cup {Chr("x"), Chr("X")}

\* C18: with escapes enabled, a backslash followed by a character that is
\* not a recognized escape posts "bad escaped character" at the backslash
\* and the unit still succeeds with that character and the escaped flag
\* set; a recognized escape does not post it.
C18_BadEscapeStillYields ==
  (UnitRead /\ backslashEscapes /\ Len(Rest) >= 2 /\ Rest[1] = BACKSLASH) =>
    IF Rest[2] \in RecognizedEscapes
      THEN ~PostedAt("bad escaped character", start)
      ELSE /\ result = [ok |-> TRUE, val |-> <<Rest[2], 1>>]
           /\ pos = start + 2
           /\ SelectSeq(messages, LAMBDA m : m.at = start)
                = <<[at |-> start, text |-> "bad escaped character"]>>

\* C18 witness: backslash, c was read with escapes enabled
C18_Witness ==
  /\ UnitRead
  /\ backslashEscapes
  /\ Rest = <<BACKSLASH, Chr("c")>>
  /\ result = [ok |-> TRUE, val |-> <<Chr("c"), 1>>]
  /\ Posted("bad escaped character")

(***************************************************************************)
(* Claims about the digits of BOZLiteral                                   *)
(***************************************************************************)
\* C15 as claimed: in a literal with a radix, a run with a digit that does
\* not fit the radix width fails and posts "bad digit in BOZ literal", and
\* an empty run fails and posts "no digit in BOZ literal".
C15_BadDigitReported ==
  \A digits \in BozDigitRuns \cup {<<>>}, w \in {1, 3, 4} :
    BozLiteralRead(digits, w) =>
      /\ digits = <<>> =>
           (~result.ok /\ Posted("no digit in BOZ literal"))
      /\ (digits # <<>> /\ ~DigitsFit(digits, w)) =>
           (~result.ok /\ Posted("bad digit in BOZ literal"))

\* a run of valid digits gives its positional value when that fits 64
\* bits, and the diagnostic exactly when it does not
BozExact(digits, w) ==
  (digits # <<>> /\ DigitsFit(digits, w)) =>
    /\ FitsU64(PositionalValue(digits, w)) =>
         result = [ok |-> TRUE, val |-> PositionalValue(digits, w)]
    /\ Posted("excessive digits in BOZ literal") <=> ~FitsU64(PositionalValue(digits, w))

\* C17: a literal with a radix and a non-empty run of digits that all fit
\* the radix width succeeds with exactly the positional value of the digits
\* in base 2^width when that value is below 2^64, leading zeros included,
\* and "excessive digits in BOZ literal" is posted if and only if the value
\* is 2^64 or more.
C17_ValueExact ==
  call.parser = "BOZLiteral" =>
    \A k \in 1..Len(Body) :
      /\ (~strictConformance /\ SuffixedLiteral(k)) =>
           BozExact(SubSeq(Body, 2, k - 1), RadixWidth(Body[k + 1]))
      /\ (PrefixedLiteral(k) /\ ~(strictConformance /\ toupper(Body[1]) = Chr("X"))) =>
           BozExact(SubSeq(Body, 3, k - 1), RadixWidth(Body[1]))

\* C17 witness: a binary literal of more than 64 digits, the first a zero,
\* was read and gave a value that takes all 64 bits
C17_Witness ==
  /\ call.parser = "BOZLiteral"
  /\ result.ok
  /\ locals.shift = <<1>>
  /\ Len(locals.content) > Bits
  /\ result.val = U64Max

(***************************************************************************)
(* Claim about the quotes of CharLiteral                                   *)
(***************************************************************************)
\* the stream at the call is a literal body of i characters, then esc, an
\* escape that stands for the quote
EscapedQuoteAt(i, esc) ==
  /\ call.parser = "CharLiteral"
  /\ backslashEscapes
  /\ i + Len(esc) <= Len(Rest)
  /\ LiteralBody(SubSeq(Rest, 1, i))
  /\ SubSeq(Rest, i + 1, i + Len(esc)) = esc

\* s is a literal body closed by an undoubled quote at k
ClosesBody(s, k) ==
  /\ LiteralBody(SubSeq(s, 1, k - 1))
  /\ s[k] = call.quote
  /\ (k = Len(s) \/ s[k + 1] # call.quote)

\* C16: with escapes enabled, a quote written as an escape (backslash and
\* quote, or the octal or hexadecimal escape of its code) is appended to
\* the result and does not end the literal: the literal ends at the first
\* unescaped quote that is not doubled, which is not part of the result,
\* and fails when no unescaped quote follows.
C16_EscapedQuoteDoesNotClose ==
  call.parser = "CharLiteral" =>
    \A i \in 0..Len(Rest), esc \in QuoteEscapes(call.quote) :
      EscapedQuoteAt(i, esc) =>
        LET before == Undoubling(SubSeq(Rest, 1, i), call.quote) \o <<call.quote>>
            after == After(Rest, i + Len(esc))
        IN  /\ result.ok =>
                 /\ pos > start + i + Len(esc)
                 /\ Len(result.val) >= Len(before)
                 /\ SubSeq(result.val, 1, Len(before)) = before
            /\ ~Contains(after, call.quote) => ~result.ok
            /\ \A k \in 1..Len(after) :
                 ClosesBody(after, k) =>
                   /\ result = [ok |-> TRUE,
                                val |-> before \o Undoubling(SubSeq(after, 1, k - 1), call.quote)]
                   /\ pos = start + i + Len(esc) + k

\* C16 witness: backslash 4 7, c and a quote were read as the literal of
\* the two characters quote and c
C16_Witness ==
  /\ call.parser = "CharLiteral"
  /\ call.quote = SQUOTE
  /\ backslashEscapes
  /\ Rest = <<BACKSLASH, Chr("4"), Chr("7"), Chr("c"), SQUOTE>>
  /\ result = [ok |-> TRUE, val |-> <<SQUOTE, Chr("c")>>]

=============================================================================
